---- MODULE Spec2Model ----
(***************************************************************************)
(* Model of the hotel room allocation core: room addressing                *)
(* (core/roomUtils.ts, core/constants.ts), the travel-time model           *)
(* (core/travelTime.ts) and the allocation engine (core/allocation.ts).    *)
(*                                                                         *)
(* A JavaScript number that may be fractional (the requested count) is a   *)
(* record [int, half]: the value int + half/2.  Room identifiers are       *)
(* integers.  null is the record Null, a present array is Some(array).     *)
(***************************************************************************)
EXTENDS Integers, Sequences, FiniteSets, TLC

(***************************************************************************)
(* Bounds of the model.                                                    *)
(***************************************************************************)
MaxLen == 4

\* Identifiers the caller may pass as available rooms: rooms on floors 1 and
\* 2, 1008 (floor 10 has only 7 rooms) and -101 (no such floor).
RoomPool == {101, 102, 103, 105, 201, 202, 1008, -101}

\* Requested counts the caller may pass: 0..6 and 0.5, 2.5, 6.5.
CountPool ==
  {[int |-> n, half |-> 0] : n \in 0..6} \cup
  {[int |-> n, half |-> 1] : n \in {0, 2, 6}}

(***************************************************************************)
(* core/constants.ts                                                       *)
(***************************************************************************)
TOTAL_FLOORS == 10
STANDARD_ROOMS_PER_FLOOR == 10
TOP_FLOOR_ROOMS == 7
TOP_FLOOR == 10
MIN_ROOMS_PER_BOOKING == 1
MAX_ROOMS_PER_BOOKING == 5
HORIZONTAL_PER_ROOM == 1
VERTICAL_PER_FLOOR == 2

\* The value Infinity: larger than every finite travel time.
Infinity == 1000000

\* getRoomsCountForFloor without the shorter top floor.
getRoomsCountForFloor_EveryFloorStandard(floor) ==
  IF floor < 1 \/ floor > TOTAL_FLOORS
    THEN 0
    ELSE STANDARD_ROOMS_PER_FLOOR

getRoomsCountForFloor(floor) ==
  IF floor < 1 \/ floor > TOTAL_FLOORS
    THEN 0
    ELSE IF floor = TOP_FLOOR THEN TOP_FLOOR_ROOMS ELSE STANDARD_ROOMS_PER_FLOOR

\* The rooms pushed by the loop of generateAllRoomNumbers from floor on.
RECURSIVE roomsFromFloor(_)
roomsFromFloor(floor) ==
  IF floor <= TOTAL_FLOORS
    THEN [position \in 1..getRoomsCountForFloor(floor) |-> floor * 100 + position]
           \o roomsFromFloor(floor + 1)
    ELSE << >>

generateAllRoomNumbers == roomsFromFloor(1)

getTotalRoomCount ==
  (TOTAL_FLOORS - 1) * STANDARD_ROOMS_PER_FLOOR + TOP_FLOOR_ROOMS

(***************************************************************************)
(* core/roomUtils.ts                                                       *)
(***************************************************************************)
\* Math.floor(roomNumber / 100)
extractFloor(roomNumber) == roomNumber \div 100

\* roomNumber % 100: the JavaScript remainder takes the sign of the dividend.
extractPosition(roomNumber) ==
  IF roomNumber >= 0 THEN roomNumber % 100 ELSE 0 - ((0 - roomNumber) % 100)

isValidRoomNumber(roomNumber) ==
  IF roomNumber < 100
    THEN FALSE
    ELSE IF extractFloor(roomNumber) < 1 \/ extractFloor(roomNumber) > TOTAL_FLOORS
      THEN FALSE
      ELSE IF extractPosition(roomNumber) < 1
                \/ extractPosition(roomNumber) > getRoomsCountForFloor(extractFloor(roomNumber))
        THEN FALSE
        ELSE TRUE

\* Array.prototype.sort, a stable sort.  compared[i][j] is the value of the
\* comparator on the elements at indices i and j.  The indices are inserted
\* one by one in ascending order, each behind the last index already placed
\* whose element does not compare greater; sortedIndices inserts the indices
\* first..last into order, the first half of them before the second (a
\* length is never negative, so that the first test only makes order be
\* computed before the insertion goes on).
insertIndex(order, i, compared) ==
  IF Len(order) = 0 \/ compared[i][order[Len(order)]] >= 0
    THEN Append(order, i)
    ELSE LET at == CHOOSE k \in 0..(Len(order) - 1) :
                     /\ k = 0 \/ compared[i][order[k]] >= 0
                     /\ \A later \in (k + 1)..Len(order) : compared[i][order[later]] < 0
         IN SubSeq(order, 1, at) \o << i >> \o SubSeq(order, at + 1, Len(order))

RECURSIVE sortedIndices(_, _, _, _)
sortedIndices(order, compared, first, last) ==
  IF Len(order) < 0 \/ first > last
    THEN order
    ELSE IF first = last
      THEN insertIndex(order, first, compared)
      ELSE sortedIndices(sortedIndices(order, compared, first, (first + last) \div 2),
                         compared, (first + last) \div 2 + 1, last)

ArraySort(arr, compared) ==
  LET order == sortedIndices(<< >>, compared, 1, Len(arr))
  IN [k \in 1..Len(arr) |-> arr[order[k]]]

\* A comparator that looks at the position first and then at the floor.
compareRooms_PositionFirst(a, b) ==
  IF extractPosition(a) # extractPosition(b)
    THEN extractPosition(a) - extractPosition(b)
    ELSE extractFloor(a) - extractFloor(b)

\* Comparator of sortRoomNumbers: floor first, then position.
compareRooms(a, b) ==
  IF extractFloor(a) # extractFloor(b)
    THEN extractFloor(a) - extractFloor(b)
    ELSE extractPosition(a) - extractPosition(b)

\* Comparator (a, b) => extractPosition(a) - extractPosition(b).
comparePosition(a, b) == extractPosition(a) - extractPosition(b)

\* A sort by position that leaves the rooms in the order they came in.
sortByPosition_InputOrder(arr) == arr

\* arr.sort((a, b) => extractPosition(a) - extractPosition(b))
sortByPosition(arr) ==
  ArraySort(arr, [i \in 1..Len(arr) |->
                   [j \in 1..Len(arr) |-> comparePosition(arr[i], arr[j])]])

\* Comparator (a, b) => a - b.
compareNumeric(a, b) == a - b

sortRoomNumbers(rooms) ==
  ArraySort(rooms, [i \in 1..Len(rooms) |->
                     [j \in 1..Len(rooms) |-> compareRooms(rooms[i], rooms[j])]])

\* sortRoomNumbers sorting its argument in place: rooms.sort(...).
sortRoomNumbersArgument_InPlace(rooms) == sortRoomNumbers(rooms)

\* The caller's array after sortRoomNumbers(rooms): [...rooms] is a copy, and
\* the copy is what sort reorders.
sortRoomNumbersArgument(rooms) == rooms

(***************************************************************************)
(* core/travelTime.ts                                                      *)
(***************************************************************************)
Abs(x) == IF x < 0 THEN 0 - x ELSE x

calculateHorizontalTime(position1, position2) ==
  Abs(position1 - position2) * HORIZONTAL_PER_ROOM

calculateVerticalTime(floor1, floor2) ==
  Abs(floor1 - floor2) * VERTICAL_PER_FLOOR

InvalidTravel(room) ==
  [totalMinutes |-> 0, verticalMinutes |-> 0, horizontalMinutes |-> 0,
   isValid |-> FALSE, errorMessage |-> "Invalid room number: " \o ToString(room)]

ZeroTravel ==
  [totalMinutes |-> 0, verticalMinutes |-> 0, horizontalMinutes |-> 0,
   isValid |-> TRUE, errorMessage |-> "undefined"]

\* calculateTravelTime with the two validity checks exchanged.
calculateTravelTime_SecondRoomFirst(room1, room2) ==
  IF ~isValidRoomNumber(room2) THEN InvalidTravel(room2)
  ELSE IF ~isValidRoomNumber(room1) THEN InvalidTravel(room1)
  ELSE IF room1 = room2 THEN ZeroTravel
  ELSE LET verticalMinutes ==
             calculateVerticalTime(extractFloor(room1), extractFloor(room2))
           horizontalMinutes ==
             calculateHorizontalTime(extractPosition(room1), extractPosition(room2))
       IN [totalMinutes |-> verticalMinutes + horizontalMinutes,
           verticalMinutes |-> verticalMinutes,
           horizontalMinutes |-> horizontalMinutes,
           isValid |-> TRUE, errorMessage |-> "undefined"]

calculateTravelTime(room1, room2) ==
  IF ~isValidRoomNumber(room1) THEN InvalidTravel(room1)
  ELSE IF ~isValidRoomNumber(room2) THEN InvalidTravel(room2)
  ELSE IF room1 = room2 THEN ZeroTravel
  ELSE LET verticalMinutes ==
             calculateVerticalTime(extractFloor(room1), extractFloor(room2))
           horizontalMinutes ==
             calculateHorizontalTime(extractPosition(room1), extractPosition(room2))
       IN [totalMinutes |-> verticalMinutes + horizontalMinutes,
           verticalMinutes |-> verticalMinutes,
           horizontalMinutes |-> horizontalMinutes,
           isValid |-> TRUE, errorMessage |-> "undefined"]

\* Index of the first invalid room of rooms at or after i, 0 if there is none.
FirstInvalid(rooms, i) ==
  IF \A k \in i..Len(rooms) : isValidRoomNumber(rooms[k])
    THEN 0
    ELSE CHOOSE k \in i..Len(rooms) :
           /\ ~isValidRoomNumber(rooms[k])
           /\ \A j \in i..(k - 1) : isValidRoomNumber(rooms[j])

\* calculateTotalTravelTimeForRooms without the sort: the travel time between
\* the first and the last room of the list as it was passed.
calculateTotalTravelTimeForRooms_UnsortedEnds(rooms) ==
  IF Len(rooms) = 0 THEN ZeroTravel
  ELSE IF Len(rooms) = 1
    THEN IF ~isValidRoomNumber(rooms[1]) THEN InvalidTravel(rooms[1]) ELSE ZeroTravel
  ELSE IF FirstInvalid(rooms, 1) # 0
    THEN InvalidTravel(rooms[FirstInvalid(rooms, 1)])
  ELSE calculateTravelTime(rooms[1], rooms[Len(rooms)])

calculateTotalTravelTimeForRooms(rooms) ==
  IF Len(rooms) = 0 THEN ZeroTravel
  ELSE IF Len(rooms) = 1
    THEN IF ~isValidRoomNumber(rooms[1]) THEN InvalidTravel(rooms[1]) ELSE ZeroTravel
  ELSE IF FirstInvalid(rooms, 1) # 0
    THEN InvalidTravel(rooms[FirstInvalid(rooms, 1)])
  ELSE LET sortedRooms ==
             ArraySort(rooms, [i \in 1..Len(rooms) |->
                                [j \in 1..Len(rooms) |-> compareNumeric(rooms[i], rooms[j])]])
       IN calculateTravelTime(sortedRooms[1], sortedRooms[Len(sortedRooms)])

calculateGroupSpan(rooms) ==
  IF Len(rooms) <= 1
    THEN 0
    ELSE LET travel == calculateTotalTravelTimeForRooms(rooms)
         IN IF travel.isValid THEN travel.totalMinutes ELSE Infinity

(***************************************************************************)
(* core/allocation.ts                                                      *)
(***************************************************************************)
Null == [some |-> FALSE, val |-> <<>>]
Some(array) == [some |-> TRUE, val |-> array]

\* Number.isInteger(x), x < n and x > n for a number x = x.int + x.half/2
\* and an integer n.
NumberIsInteger(x) == x.half = 0
NumberLess(x, n) == x.int < n
NumberGreater(x, n) == x.int > n \/ (x.int = n /\ x.half = 1)

\* isValidRoomNumber(x) for a number x = x.int + x.half/2 that may be
\* fractional: Number.isInteger(x) is tested before anything else.
isValidRoomNumberOf(x) ==
  IF ~NumberIsInteger(x) THEN FALSE ELSE isValidRoomNumber(x.int)

\* validateBookingRequest with the availability check moved to the front.
validateBookingRequest_AvailabilityFirst(requestedRooms, availableRooms) ==
  IF NumberGreater(requestedRooms, Len(availableRooms))
    THEN [isValid |-> FALSE,
          error |-> "Not enough rooms available. Requested: "
                      \o ToString(requestedRooms.int) \o ", Available: "
                      \o ToString(Len(availableRooms))]
  ELSE IF ~NumberIsInteger(requestedRooms)
    THEN [isValid |-> FALSE, error |-> "Number of rooms must be an integer"]
  ELSE IF NumberLess(requestedRooms, MIN_ROOMS_PER_BOOKING)
    THEN [isValid |-> FALSE,
          error |-> "Minimum " \o ToString(MIN_ROOMS_PER_BOOKING)
                      \o " room(s) required per booking"]
  ELSE IF NumberGreater(requestedRooms, MAX_ROOMS_PER_BOOKING)
    THEN [isValid |-> FALSE,
          error |-> "Maximum " \o ToString(MAX_ROOMS_PER_BOOKING)
                      \o " rooms allowed per booking"]
  ELSE [isValid |-> TRUE, error |-> "undefined"]

\* validateBookingRequest without the check against the available rooms.
validateBookingRequest_NoAvailabilityCheck(requestedRooms, availableRooms) ==
  IF ~NumberIsInteger(requestedRooms)
    THEN [isValid |-> FALSE, error |-> "Number of rooms must be an integer"]
  ELSE IF NumberLess(requestedRooms, MIN_ROOMS_PER_BOOKING)
    THEN [isValid |-> FALSE,
          error |-> "Minimum " \o ToString(MIN_ROOMS_PER_BOOKING)
                      \o " room(s) required per booking"]
  ELSE IF NumberGreater(requestedRooms, MAX_ROOMS_PER_BOOKING)
    THEN [isValid |-> FALSE,
          error |-> "Maximum " \o ToString(MAX_ROOMS_PER_BOOKING)
                      \o " rooms allowed per booking"]
  ELSE [isValid |-> TRUE, error |-> "undefined"]

validateBookingRequest(requestedRooms, availableRooms) ==
  IF ~NumberIsInteger(requestedRooms)
    THEN [isValid |-> FALSE, error |-> "Number of rooms must be an integer"]
  ELSE IF NumberLess(requestedRooms, MIN_ROOMS_PER_BOOKING)
    THEN [isValid |-> FALSE,
          error |-> "Minimum " \o ToString(MIN_ROOMS_PER_BOOKING)
                      \o " room(s) required per booking"]
  ELSE IF NumberGreater(requestedRooms, MAX_ROOMS_PER_BOOKING)
    THEN [isValid |-> FALSE,
          error |-> "Maximum " \o ToString(MAX_ROOMS_PER_BOOKING)
                      \o " rooms allowed per booking"]
  ELSE IF NumberGreater(requestedRooms, Len(availableRooms))
    THEN [isValid |-> FALSE,
          error |-> "Not enough rooms available. Requested: "
                      \o ToString(requestedRooms.int) \o ", Available: "
                      \o ToString(Len(availableRooms))]
  ELSE [isValid |-> TRUE, error |-> "undefined"]

\* The Map floor -> rooms of that floor in input order, then sorted by position.
groupRoomsByFloor(rooms) ==
  [floor \in {extractFloor(rooms[i]) : i \in 1..Len(rooms)} |->
     sortByPosition(SelectSeq(rooms, LAMBDA room : extractFloor(room) = floor))]

\* slice taking one element too many: slice(i, i + count + 1).
Slice_OneMore(arr, i, count) ==
  SubSeq(arr, i + 1, IF i + count + 1 <= Len(arr) THEN i + count + 1 ELSE Len(arr))

\* block.slice(i, i + count) for the 0-based index i.
Slice(arr, i, count) == SubSeq(arr, i + 1, i + count)

isContiguous(block) ==
  \A j \in 2..Len(block) :
    extractPosition(block[j]) - extractPosition(block[j - 1]) = 1

\* betterBlock with span <= bestSpan: of the windows with the same span the
\* last one is kept.
betterBlock_KeepsLast(block, best) ==
  IF calculateGroupSpan(block) <= best.span /\ calculateGroupSpan(block) < Infinity
    THEN [block |-> Some(block), span |-> calculateGroupSpan(block)]
    ELSE best

\* One pass of the sliding-window loop: best is [block, span], the block a
\* Null or Some(array).
betterBlock(block, best) ==
  LET span == calculateGroupSpan(block)
  IN IF span < best.span
          \/ (span = best.span /\ best.block.some /\ block[1] < best.block.val[1])
       THEN [block |-> Some(block), span |-> span]
       ELSE best

\* contiguousStep taking every contiguous window whose span is not greater:
\* the last of the best windows is kept.
contiguousStep_KeepsLast(sorted, count, i, best) ==
  IF isContiguous(Slice(sorted, i, count))
       /\ calculateGroupSpan(Slice(sorted, i, count)) <= best.span
       /\ calculateGroupSpan(Slice(sorted, i, count)) < Infinity
    THEN [block |-> Some(Slice(sorted, i, count)),
          span |-> calculateGroupSpan(Slice(sorted, i, count))]
    ELSE best

contiguousStep(sorted, count, i, best) ==
  IF isContiguous(Slice(sorted, i, count))
    THEN betterBlock(Slice(sorted, i, count), best)
    ELSE best

\* The loops over the windows and over the floors test the value reached so
\* far first (a span is never negative), so that it is computed before the
\* next pass.
RECURSIVE contiguousLoop(_, _, _, _)
contiguousLoop(sorted, count, i, best) ==
  IF best.span >= 0 /\ i <= Len(sorted) - count
    THEN contiguousLoop(sorted, count, i + 1, contiguousStep(sorted, count, i, best))
    ELSE best

findBestContiguousBlock(floorRooms, count) ==
  IF Len(floorRooms) < count
    THEN Null
    ELSE contiguousLoop(sortByPosition(floorRooms), count, 0,
                        [block |-> Null, span |-> Infinity]).block

RECURSIVE sameFloorLoop(_, _, _, _)
sameFloorLoop(sorted, count, i, best) ==
  IF best.span >= 0 /\ i <= Len(sorted) - count
    THEN sameFloorLoop(sorted, count, i + 1,
                       betterBlock(Slice(sorted, i, count), best))
    ELSE best

findBestSameFloorBlock(floorRooms, count) ==
  IF Len(floorRooms) < count
    THEN Null
    ELSE IF findBestContiguousBlock(floorRooms, count).some
      THEN findBestContiguousBlock(floorRooms, count)
      ELSE sameFloorLoop(sortByPosition(floorRooms), count, 0,
                         [block |-> Null, span |-> Infinity]).block

\* combine(start, current) of generateCombinations: the combinations it
\* pushes, in push order. combineFrom is one pass of its loop over i, and
\* combineLoop the passes first..last, the first half before the second.
RECURSIVE combine(_, _, _, _)
RECURSIVE combineFrom(_, _, _, _)
RECURSIVE combineLoop(_, _, _, _, _)
combine(items, count, start, current) ==
  IF Len(current) = count THEN << current >>
  ELSE IF Len(items) - start < count - Len(current) THEN << >>
  ELSE combineLoop(items, count, start, Len(items) - 1, current)

\* combineFrom recursing with combine(i, current) instead of
\* combine(i + 1, current): an item may be taken again.
combineFrom_Repeats(items, count, i, current) ==
  combine(items, count, i, Append(current, items[i + 1]))

combineFrom(items, count, i, current) ==
  combine(items, count, i + 1, Append(current, items[i + 1]))

combineLoop(items, count, first, last, current) ==
  IF first > last
    THEN << >>
    ELSE IF first = last
      THEN combineFrom(items, count, first, current)
      ELSE combineLoop(items, count, first, (first + last) \div 2, current)
             \o combineLoop(items, count, (first + last) \div 2 + 1, last, current)

generateCombinations(items, count) ==
  IF count = 0 THEN << << >> >>
  ELSE IF Len(items) < count THEN << >>
  ELSE IF Len(items) = count THEN << items >>
  ELSE combine(items, count, 0, << >>)

\* crossFloorStep with travelTime <= bestTravelTime: the last of the
\* minimum-span combinations is kept.
crossFloorStep_KeepsLast(combo, best) ==
  IF calculateGroupSpan(combo) <= best.travelTime
       /\ calculateGroupSpan(combo) < Infinity
    THEN [allocation |-> Some(combo), travelTime |-> calculateGroupSpan(combo)]
    ELSE best

\* crossFloorStep with travelTime <= bestTravelTime and nothing else: a
\* combination whose span is the sentinel is taken too.
crossFloorStep_NotStrict(combo, best) ==
  IF calculateGroupSpan(combo) <= best.travelTime
    THEN [allocation |-> Some(combo), travelTime |-> calculateGroupSpan(combo)]
    ELSE best

\* One pass of the loop over the combinations: best is [allocation, travelTime].
crossFloorStep(combo, best) ==
  LET travelTime == calculateGroupSpan(combo)
  IN IF travelTime < best.travelTime
       THEN [allocation |-> Some(combo), travelTime |-> travelTime]
       ELSE IF travelTime = best.travelTime /\ best.allocation.some
                 /\ combo[1] < best.allocation.val[1]
         THEN [allocation |-> Some(combo), travelTime |-> best.travelTime]
         ELSE best

\* The loop over the combinations first..last in their order, the first half
\* of them before the second; best is the value the loop has reached before
\* combination first (a travel time is never negative, so that the first
\* test only makes best be computed before the loop goes on).
RECURSIVE crossFloorLoop(_, _, _, _)
crossFloorLoop(combinations, first, last, best) ==
  IF best.travelTime < 0 \/ first > last
    THEN best
    ELSE IF first = last
      THEN crossFloorStep(combinations[first], best)
      ELSE crossFloorLoop(combinations, (first + last) \div 2 + 1, last,
                          crossFloorLoop(combinations, first, (first + last) \div 2, best))

crossFloorBest(combinations) ==
  crossFloorLoop(combinations, 1, Len(combinations),
                 [allocation |-> Null, travelTime |-> Infinity])

findBestCrossFloorAllocation(availableRooms, count) ==
  IF Len(availableRooms) < count
    THEN Null
    ELSE crossFloorBest(generateCombinations(sortRoomNumbers(availableRooms), count)).allocation

\* roomsByFloor.get(floor) || []
floorRoomsOf(roomsByFloor, floor) ==
  IF floor \in DOMAIN roomsByFloor THEN roomsByFloor[floor] ELSE << >>

\* singleFloorStep without the comparison of travel times: the first floor
\* that has a block wins.
singleFloorStep_FirstFloor(roomsByFloor, requestedRooms, floor, best) ==
  LET floorRooms == floorRoomsOf(roomsByFloor, floor)
      allocation == findBestSameFloorBlock(floorRooms, requestedRooms)
  IN IF Len(floorRooms) >= requestedRooms /\ allocation.some /\ ~best.allocation.some
       THEN [allocation |-> allocation,
             travelTime |-> calculateGroupSpan(allocation.val), floor |-> floor]
       ELSE best

\* singleFloorStep with travelTime <= bestSingleFloorTravelTime: of the
\* floors with the same span the highest wins.
singleFloorStep_HigherFloor(roomsByFloor, requestedRooms, floor, best) ==
  LET floorRooms == floorRoomsOf(roomsByFloor, floor)
      allocation == findBestSameFloorBlock(floorRooms, requestedRooms)
      travelTime == calculateGroupSpan(allocation.val)
  IN IF Len(floorRooms) >= requestedRooms /\ allocation.some
          /\ travelTime <= best.travelTime
       THEN [allocation |-> allocation, travelTime |-> travelTime, floor |-> floor]
       ELSE best

\* One pass of the loop over the floors: best is [allocation, travelTime, floor].
singleFloorStep(roomsByFloor, requestedRooms, floor, best) ==
  LET floorRooms == floorRoomsOf(roomsByFloor, floor)
      allocation == findBestSameFloorBlock(floorRooms, requestedRooms)
      travelTime == calculateGroupSpan(allocation.val)
  IN IF Len(floorRooms) >= requestedRooms /\ allocation.some
          /\ (travelTime < best.travelTime
                \/ (travelTime = best.travelTime /\ floor < best.floor))
       THEN [allocation |-> allocation, travelTime |-> travelTime, floor |-> floor]
       ELSE best

RECURSIVE singleFloorLoop(_, _, _, _)
singleFloorLoop(roomsByFloor, requestedRooms, floor, best) ==
  IF best.travelTime >= 0 /\ floor <= TOTAL_FLOORS
    THEN singleFloorLoop(roomsByFloor, requestedRooms, floor + 1,
                         singleFloorStep(roomsByFloor, requestedRooms, floor, best))
    ELSE best

\* A failure result that drops the message.
failure_NoMessage(errorMessage) ==
  [success |-> FALSE, allocatedRooms |-> << >>, travelTime |-> 0,
   errorMessage |-> "undefined"]

failure(errorMessage) ==
  [success |-> FALSE, allocatedRooms |-> << >>, travelTime |-> 0,
   errorMessage |-> errorMessage]

\* searchRooms returning whichever of the single-floor and the cross-floor
\* allocation has the smaller span.
searchRooms_GlobalMinimum(count, availableRooms) ==
  LET bestSingle == singleFloorLoop(groupRoomsByFloor(availableRooms), count, 1,
                      [allocation |-> Null, travelTime |-> Infinity, floor |-> 0])
      crossFloorAllocation == findBestCrossFloorAllocation(availableRooms, count)
  IN IF bestSingle.allocation.some
          /\ ~(crossFloorAllocation.some
                 /\ calculateGroupSpan(crossFloorAllocation.val) < bestSingle.travelTime)
       THEN [success |-> TRUE,
             allocatedRooms |-> sortRoomNumbers(bestSingle.allocation.val),
             travelTime |-> bestSingle.travelTime,
             errorMessage |-> "undefined"]
       ELSE IF crossFloorAllocation.some
         THEN [success |-> TRUE,
               allocatedRooms |-> sortRoomNumbers(crossFloorAllocation.val),
               travelTime |-> calculateGroupSpan(crossFloorAllocation.val),
               errorMessage |-> "undefined"]
         ELSE [success |-> FALSE, allocatedRooms |-> << >>, travelTime |-> 0,
               errorMessage |-> "Unable to allocate rooms"]

\* searchRooms returning, in the cross-floor branch, the travel time of the
\* single-floor search.
searchRooms_SingleFloorTime(count, availableRooms) ==
  LET bestSingle == singleFloorLoop(groupRoomsByFloor(availableRooms), count, 1,
                      [allocation |-> Null, travelTime |-> Infinity, floor |-> 0])
      crossFloorAllocation == findBestCrossFloorAllocation(availableRooms, count)
  IN IF bestSingle.allocation.some
       THEN [success |-> TRUE,
             allocatedRooms |-> sortRoomNumbers(bestSingle.allocation.val),
             travelTime |-> bestSingle.travelTime,
             errorMessage |-> "undefined"]
       ELSE IF crossFloorAllocation.some
         THEN [success |-> TRUE,
               allocatedRooms |-> sortRoomNumbers(crossFloorAllocation.val),
               travelTime |-> bestSingle.travelTime,
               errorMessage |-> "undefined"]
         ELSE [success |-> FALSE, allocatedRooms |-> << >>, travelTime |-> 0,
               errorMessage |-> "Unable to allocate rooms"]

\* Steps 2 to 5 of allocateRooms, for a request that passed validation.
searchRooms(count, availableRooms) ==
  LET bestSingle == singleFloorLoop(groupRoomsByFloor(availableRooms), count, 1,
                      [allocation |-> Null, travelTime |-> Infinity, floor |-> 0])
      crossFloorAllocation == findBestCrossFloorAllocation(availableRooms, count)
  IN IF bestSingle.allocation.some
       THEN [success |-> TRUE,
             allocatedRooms |-> sortRoomNumbers(bestSingle.allocation.val),
             travelTime |-> bestSingle.travelTime,
             errorMessage |-> "undefined"]
       ELSE IF crossFloorAllocation.some
         THEN [success |-> TRUE,
               allocatedRooms |-> sortRoomNumbers(crossFloorAllocation.val),
               travelTime |-> calculateGroupSpan(crossFloorAllocation.val),
               errorMessage |-> "undefined"]
         ELSE failure("Unable to allocate rooms")

allocateRooms(requestedRooms, availableRooms) ==
  IF ~validateBookingRequest(requestedRooms, availableRooms).isValid
    THEN failure(validateBookingRequest(requestedRooms, availableRooms).error)
    ELSE searchRooms(requestedRooms.int, availableRooms)

canAllocate(requestedRooms, availableRooms) ==
  allocateRooms(requestedRooms, availableRooms).success

\* The caller's array after allocateRooms(requestedRooms, availableRooms).
\* validateBookingRequest and groupRoomsByFloor only read it (the arrays that
\* groupRoomsByFloor sorts in place are its own), findBestContiguousBlock and
\* findBestSameFloorBlock get the arrays of groupRoomsByFloor, and
\* findBestCrossFloorAllocation, reached when no floor has a block, hands it
\* to sortRoomNumbers.
argumentAfterAllocateRooms(requestedRooms, availableRooms) ==
  IF ~validateBookingRequest(requestedRooms, availableRooms).isValid
    THEN availableRooms
    ELSE IF singleFloorLoop(groupRoomsByFloor(availableRooms), requestedRooms.int, 1,
              [allocation |-> Null, travelTime |-> Infinity, floor |-> 0]).allocation.some
      THEN availableRooms
      ELSE sortRoomNumbersArgument(availableRooms)

(***************************************************************************)
(* core/hotelState.ts.  A HotelState is a record [rooms, lastBooking,      *)
(* lastTravelTime]; rooms, the Map, is the sequence of its Room records in *)
(* insertion order, one per key.  lastTravelTime is Null or Some(minutes). *)
(***************************************************************************)
createInitialHotelState ==
  [rooms |->
     [i \in 1..Len(generateAllRoomNumbers) |->
        [roomNumber |-> generateAllRoomNumbers[i],
         floor |-> extractFloor(generateAllRoomNumbers[i]),
         position |-> extractPosition(generateAllRoomNumbers[i]),
         status |-> "available"]],
   lastBooking |-> Null,
   lastTravelTime |-> Null]

\* The keys of the given entries of the Map, in their order.
roomNumbersOf(records) == [k \in 1..Len(records) |-> records[k].roomNumber]

\* The keys pushed by the loop over the Map from entry i on: the rooms of
\* the given status, in insertion order.
roomNumbersWithStatus(rooms, status, i) ==
  roomNumbersOf(SelectSeq(SubSeq(rooms, i, Len(rooms)),
                          LAMBDA room : room.status = status))

\* getAvailableRooms that lists every room of the Map, whatever its status.
getAvailableRooms_AnyStatus(state) ==
  [i \in 1..Len(state.rooms) |-> state.rooms[i].roomNumber]

getAvailableRooms(state) ==
  LET available == roomNumbersWithStatus(state.rooms, "available", 1)
  IN ArraySort(available, [i \in 1..Len(available) |->
                            [j \in 1..Len(available) |->
                               compareNumeric(available[i], available[j])]])

\* updateRoomStatus without the test of existingRoom: a listed key that the
\* Map does not have gets a record of its own.
updateRoomStatus_AddsMissing(state, roomNumbers, newStatus) ==
  LET listed == {roomNumbers[k] : k \in 1..Len(roomNumbers)}
      keys == {state.rooms[i].roomNumber : i \in 1..Len(state.rooms)}
  IN [state EXCEPT !.rooms =
        [i \in 1..Len(state.rooms) |->
           IF state.rooms[i].roomNumber \in listed
             THEN [state.rooms[i] EXCEPT !.status = newStatus]
             ELSE state.rooms[i]]
        \o SelectSeq(
             [k \in 1..Len(roomNumbers) |->
                [roomNumber |-> roomNumbers[k], floor |-> extractFloor(roomNumbers[k]),
                 position |-> extractPosition(roomNumbers[k]), status |-> newStatus]],
             LAMBDA room : room.roomNumber \notin keys)]

\* The loop sets the same status for every listed key that the Map has and
\* leaves the other entries, and the order of the entries, alone.
updateRoomStatus(state, roomNumbers, newStatus) ==
  LET listed == {roomNumbers[k] : k \in 1..Len(roomNumbers)}
  IN [state EXCEPT !.rooms =
        [i \in 1..Len(state.rooms) |->
           IF state.rooms[i].roomNumber \in listed
             THEN [state.rooms[i] EXCEPT !.status = newStatus]
             ELSE state.rooms[i]]]

\* updateRoomStatus writing into the Map of the state it was given.
updateRoomStatusArgument_SameMap(state, roomNumbers, newStatus) ==
  updateRoomStatus(state, roomNumbers, newStatus)

\* The caller's state after updateRoomStatus(state, ...): new Map(state.rooms)
\* is a copy, {...existingRoom, status} a new record and {...state, rooms} a
\* new object.
updateRoomStatusArgument(state, roomNumbers, newStatus) == state

\* bookingOf forgetting the last booking when the allocation failed.
bookingOf_FailureClearsLast(state, allocation) ==
  IF ~allocation.success
    THEN [newState |-> [state EXCEPT !.lastBooking = Null, !.lastTravelTime = Null],
          result |-> allocation]
    ELSE [newState |->
            [updateRoomStatus(state, allocation.allocatedRooms, "booked")
               EXCEPT !.lastBooking = Some(allocation.allocatedRooms),
                      !.lastTravelTime = Some(allocation.travelTime)],
          result |-> allocation]

\* bookingOf recording the rooms of the booking but not its travel time.
bookingOf_KeepsTravelTime(state, allocation) ==
  IF ~allocation.success
    THEN [newState |-> state, result |-> allocation]
    ELSE [newState |->
            [updateRoomStatus(state, allocation.allocatedRooms, "booked")
               EXCEPT !.lastBooking = Some(allocation.allocatedRooms)],
          result |-> allocation]

\* What processBooking returns once allocateRooms has returned allocation.
bookingOf(state, allocation) ==
  IF ~allocation.success
    THEN [newState |-> state, result |-> allocation]
    ELSE [newState |->
            [updateRoomStatus(state, allocation.allocatedRooms, "booked")
               EXCEPT !.lastBooking = Some(allocation.allocatedRooms),
                      !.lastTravelTime = Some(allocation.travelTime)],
          result |-> allocation]

processBooking(state, numberOfRooms) ==
  bookingOf(state, allocateRooms(numberOfRooms, getAvailableRooms(state)))

\* The caller's state after a processBooking(state, ...) that returned
\* allocation as its result.
processBookingArgument(state, allocation) ==
  IF ~allocation.success
    THEN state
    ELSE updateRoomStatusArgument(state, allocation.allocatedRooms, "booked")

resetHotel == createInitialHotelState

\* The rooms pushed by the loop of randomlyOccupyRooms from index i on.
\* occupancyRate and the values of Math.random(), one per room in random,
\* are in tenths.
roomsToOccupyFrom(allRooms, occupancyRate, random, i) ==
  SelectSeq(SubSeq(allRooms, i, Len(allRooms)),
            LAMBDA room : random[room] < occupancyRate)

\* randomlyOccupyRooms marking the rooms in the state it was given instead of
\* in a fresh hotel.
randomlyOccupyRooms_KeepsState(state, occupancyRate, random) ==
  [updateRoomStatus(state,
                    roomsToOccupyFrom(generateAllRoomNumbers, occupancyRate, random, 1),
                    "occupied")
     EXCEPT !.lastBooking = Null, !.lastTravelTime = Null]

randomlyOccupyRooms(state, occupancyRate, random) ==
  [updateRoomStatus(resetHotel,
                    roomsToOccupyFrom(generateAllRoomNumbers, occupancyRate, random, 1),
                    "occupied")
     EXCEPT !.lastBooking = Null, !.lastTravelTime = Null]

getHotelStats(state) ==
  [totalRooms |-> Len(state.rooms),
   availableCount |->
     Cardinality({i \in 1..Len(state.rooms) : state.rooms[i].status = "available"}),
   bookedCount |->
     Cardinality({i \in 1..Len(state.rooms) : state.rooms[i].status = "booked"}),
   occupiedCount |->
     Cardinality({i \in 1..Len(state.rooms) : state.rooms[i].status = "occupied"})]

(***************************************************************************)
(* The caller: it holds a count and a list of available rooms, calls       *)
(* allocateRooms once and keeps the result.  The other variables belong to *)
(* the callers of the utilities, of core/hotelState.ts and of the hook     *)
(* further down; each caller leaves the variables of the others alone.     *)
(***************************************************************************)
VARIABLES requestedRooms, availableRooms, result, pc,
          room1, room2, roomList, roomNumber, returned,
          hotelState, stateArgument, bookings,
          updates, message, lastAllocation

vars ==
  << requestedRooms, availableRooms, result, pc,
     room1, room2, roomList, roomNumber, returned,
     hotelState, stateArgument, bookings,
     updates, message, lastAllocation >>

allocationVars == << requestedRooms, availableRooms, result >>
utilityVars == << room1, room2, roomList, roomNumber, returned >>
hotelVars == << hotelState, stateArgument, bookings >>
hookVars == << updates, message, lastAllocation >>

\* All arrays over RoomPool of length at most MaxLen.
RoomLists == UNION {[1..n -> RoomPool] : n \in 0..MaxLen}

\* The lists of available rooms of the repository's allocation tests.
TestLists ==
  { generateAllRoomNumbers,
    << 1001, 1002, 1003, 1004, 1005, 1006, 1007 >>,
    << 101, 102, 201, 202, 301, 302 >>,
    << 101, 105, 110, 201, 202, 203 >>,
    << 101, 102, 109, 110, 201, 202 >>,
    << 101, 201, 301, 401, 501, 601, 701, 801, 901, 1001 >>,
    << 101, 201, 202, 203, 204, 205, 301, 401, 410 >>,
    << 101, 510, 1007 >> }

\* Lists whose rooms are as far apart as two rooms can be: on one floor, and
\* between the first and the top floor.
FarLists == { << 101, 110 >>, << 110, 1001 >> }

NoResult ==
  [success |-> FALSE, allocatedRooms |-> << >>, travelTime |-> 0,
   errorMessage |-> "not called"]

\* No utility has been called.
NoReturn == [fn |-> "none", value |-> 0]

\* The hook's message and lastAllocation when they are null.
NoMessage == [type |-> "null", text |-> ""]
NoAllocation == [some |-> FALSE, val |-> NoResult]

AllocationIdle ==
  /\ requestedRooms = [int |-> 0, half |-> 0]
  /\ availableRooms = << >>
  /\ result = NoResult

UtilitiesIdle ==
  /\ room1 = 0
  /\ room2 = 0
  /\ roomList = << >>
  /\ roomNumber = [int |-> 0, half |-> 0]
  /\ returned = NoReturn

HotelIdle ==
  /\ hotelState = createInitialHotelState
  /\ stateArgument = createInitialHotelState
  /\ bookings = << >>

HookIdle ==
  /\ updates = << >>
  /\ message = NoMessage
  /\ lastAllocation = NoAllocation

Init ==
  /\ UtilitiesIdle
  /\ HotelIdle
  /\ HookIdle
  /\ requestedRooms \in CountPool
  /\ availableRooms \in RoomLists \cup TestLists \cup FarLists
  /\ result = NoResult
  /\ pc = "call"

CallAllocateRooms ==
  /\ pc = "call"
  /\ result' = allocateRooms(requestedRooms, availableRooms)
  /\ availableRooms' = argumentAfterAllocateRooms(requestedRooms, availableRooms)
  /\ pc' = "returned"
  /\ UNCHANGED << requestedRooms, utilityVars, hotelVars, hookVars >>

Next == CallAllocateRooms

Spec == Init /\ [][Next]_vars

(***************************************************************************)
(* The caller of calculateTravelTime: it holds two room numbers.           *)
(***************************************************************************)
\* Room numbers a caller may pass: valid rooms on floors 1, 2, 9 and 10 and
\* numbers that are not rooms.
IdPool == {101, 102, 110, 205, 210, 910, 1001, 1007, 1008, 111, 1101, 99, 0, -101}

InitTravelTime ==
  /\ AllocationIdle
  /\ HotelIdle
  /\ HookIdle
  /\ room1 \in IdPool
  /\ room2 \in IdPool
  /\ roomList = << >>
  /\ roomNumber = [int |-> 0, half |-> 0]
  /\ returned = NoReturn
  /\ pc = "call"

CallCalculateTravelTime ==
  /\ pc = "call"
  /\ returned' = [fn |-> "calculateTravelTime", value |-> calculateTravelTime(room1, room2)]
  /\ pc' = "returned"
  /\ UNCHANGED << room1, room2, roomList, roomNumber, allocationVars, hotelVars, hookVars >>

NextTravelTime == CallCalculateTravelTime

SpecTravelTime == InitTravelTime /\ [][NextTravelTime]_vars

(***************************************************************************)
(* The caller of the functions that take a list of rooms.                  *)
(***************************************************************************)
InitRoomLists ==
  /\ AllocationIdle
  /\ HotelIdle
  /\ HookIdle
  /\ room1 = 0
  /\ room2 = 0
  /\ roomList \in RoomLists \cup TestLists
  /\ roomNumber = [int |-> 0, half |-> 0]
  /\ returned = NoReturn
  /\ pc = "call"

CallCalculateGroupSpan ==
  /\ pc = "call"
  /\ returned' = [fn |-> "calculateGroupSpan", value |-> calculateGroupSpan(roomList)]
  /\ pc' = "returned"
  /\ UNCHANGED << room1, room2, roomList, roomNumber, allocationVars, hotelVars, hookVars >>

CallCalculateTotalTravelTimeForRooms ==
  /\ pc = "call"
  /\ returned' = [fn |-> "calculateTotalTravelTimeForRooms",
                  value |-> calculateTotalTravelTimeForRooms(roomList)]
  /\ pc' = "returned"
  /\ UNCHANGED << room1, room2, roomList, roomNumber, allocationVars, hotelVars, hookVars >>

CallSortRoomNumbers ==
  /\ pc = "call"
  /\ returned' = [fn |-> "sortRoomNumbers", value |-> sortRoomNumbers(roomList)]
  /\ roomList' = sortRoomNumbersArgument(roomList)
  /\ pc' = "returned"
  /\ UNCHANGED << room1, room2, roomNumber, allocationVars, hotelVars, hookVars >>

NextRoomLists ==
  \/ CallCalculateGroupSpan
  \/ CallCalculateTotalTravelTimeForRooms
  \/ CallSortRoomNumbers

SpecRoomLists == InitRoomLists /\ [][NextRoomLists]_vars

(***************************************************************************)
(* The caller of isValidRoomNumber, generateAllRoomNumbers and             *)
(* getTotalRoomCount: it holds a number that may or may not be a room.     *)
(***************************************************************************)
MaxRoomNumber == 1250

\* The numbers n and n + 0.5 for -MaxRoomNumber <= n <= MaxRoomNumber.
NumberPool ==
  {[int |-> n, half |-> h] : n \in (0 - MaxRoomNumber)..MaxRoomNumber, h \in {0, 1}}

InitRoomNumbers ==
  /\ AllocationIdle
  /\ HotelIdle
  /\ HookIdle
  /\ room1 = 0
  /\ room2 = 0
  /\ roomList = << >>
  /\ roomNumber \in NumberPool
  /\ returned = NoReturn
  /\ pc = "call"

CallIsValidRoomNumber ==
  /\ pc = "call"
  /\ returned' = [fn |-> "isValidRoomNumber", value |-> isValidRoomNumberOf(roomNumber)]
  /\ pc' = "returned"
  /\ UNCHANGED << room1, room2, roomList, roomNumber, allocationVars, hotelVars, hookVars >>

CallGenerateAllRoomNumbers ==
  /\ pc = "call"
  /\ returned' = [fn |-> "generateAllRoomNumbers", value |-> generateAllRoomNumbers]
  /\ pc' = "returned"
  /\ UNCHANGED << room1, room2, roomList, roomNumber, allocationVars, hotelVars, hookVars >>

CallGetTotalRoomCount ==
  /\ pc = "call"
  /\ returned' = [fn |-> "getTotalRoomCount", value |-> getTotalRoomCount]
  /\ pc' = "returned"
  /\ UNCHANGED << room1, room2, roomList, roomNumber, allocationVars, hotelVars, hookVars >>

NextRoomNumbers ==
  \/ CallIsValidRoomNumber
  \/ CallGenerateAllRoomNumbers
  \/ CallGetTotalRoomCount

SpecRoomNumbers == InitRoomNumbers /\ [][NextRoomNumbers]_vars

(***************************************************************************)
(* The caller of core/hotelState.ts: it holds a hotel state and replaces   *)
(* it by the state each call returns.  stateArgument is the state object   *)
(* the caller held before its last call, as it is after that call; result  *)
(* is the result of the last booking since the last reset; bookings is the *)
(* list of the rooms of the successful bookings since the last reset.      *)
(***************************************************************************)
MaxBookings == 2

\* Rooms that Math.random() may leave free when the others are occupied.
FreePool == {101, 102, 201}

\* Values of Math.random() in tenths, one per room: low for the rooms that a
\* rate of 0.3 occupies.  Every room but some of FreePool is low, or none is.
RandomDraws ==
  LET allRooms == {generateAllRoomNumbers[i] : i \in 1..Len(generateAllRoomNumbers)}
  IN {[room \in allRooms |-> IF room \in free THEN 9 ELSE 0] : free \in SUBSET FreePool}
       \cup {[room \in allRooms |-> 9]}

\* Occupancy rates in tenths: 0, the default 0.3, and 1.
OccupancyRates == {0, 3, 10}

InitHotel ==
  /\ AllocationIdle
  /\ UtilitiesIdle
  /\ HookIdle
  /\ hotelState = createInitialHotelState
  /\ stateArgument = createInitialHotelState
  /\ bookings = << >>
  /\ pc = "hotel"

ProcessBooking ==
  /\ pc = "hotel"
  /\ Len(bookings) < MaxBookings
  /\ \E numberOfRooms \in CountPool :
       \E booked \in {processBooking(hotelState, numberOfRooms)} :
         /\ hotelState' = booked.newState
         /\ result' = booked.result
         /\ stateArgument' = processBookingArgument(hotelState, booked.result)
         /\ bookings' = IF booked.result.success
                           THEN Append(bookings, booked.result.allocatedRooms)
                           ELSE bookings
  /\ UNCHANGED << requestedRooms, availableRooms, pc, utilityVars, hookVars >>

ResetHotel ==
  /\ pc = "hotel"
  /\ hotelState' = resetHotel
  /\ stateArgument' = hotelState
  /\ result' = NoResult
  /\ bookings' = << >>
  /\ UNCHANGED << requestedRooms, availableRooms, pc, utilityVars, hookVars >>

RandomlyOccupyRooms ==
  /\ pc = "hotel"
  /\ \E occupancyRate \in OccupancyRates, random \in RandomDraws :
       hotelState' = randomlyOccupyRooms(hotelState, occupancyRate, random)
  /\ stateArgument' = hotelState
  /\ result' = NoResult
  /\ bookings' = << >>
  /\ UNCHANGED << requestedRooms, availableRooms, pc, utilityVars, hookVars >>

NextHotel ==
  \/ ProcessBooking
  \/ ResetHotel
  \/ RandomlyOccupyRooms

SpecHotel == InitHotel /\ [][NextHotel]_vars

(***************************************************************************)
(* The caller of findBestSameFloorBlock: it holds the available rooms of   *)
(* one floor in roomList and the count in requestedRooms.                  *)
(***************************************************************************)
\* Floors whose rooms the caller passes: a standard floor and the top floor.
SameFloorPool == {1, TOP_FLOOR}

\* The available rooms of one floor: every set of rooms of the floor, in
\* ascending and in descending order.
FloorLists ==
  UNION {
    UNION {
      LET ascending ==
            SelectSeq([position \in 1..getRoomsCountForFloor(floor) |-> floor * 100 + position],
                      LAMBDA room : room \in rooms)
      IN {ascending, [k \in 1..Len(ascending) |-> ascending[Len(ascending) + 1 - k]]} :
      rooms \in SUBSET {floor * 100 + position : position \in 1..getRoomsCountForFloor(floor)}} :
    floor \in SameFloorPool}

InitSameFloor ==
  /\ HotelIdle
  /\ HookIdle
  /\ requestedRooms \in
       {[int |-> n, half |-> 0] : n \in MIN_ROOMS_PER_BOOKING..MAX_ROOMS_PER_BOOKING}
  /\ availableRooms = << >>
  /\ result = NoResult
  /\ room1 = 0
  /\ room2 = 0
  /\ roomList \in FloorLists
  /\ roomNumber = [int |-> 0, half |-> 0]
  /\ returned = NoReturn
  /\ pc = "call"

CallFindBestSameFloorBlock ==
  /\ pc = "call"
  /\ returned' = [fn |-> "findBestSameFloorBlock",
                  value |-> findBestSameFloorBlock(roomList, requestedRooms.int)]
  /\ pc' = "returned"
  /\ UNCHANGED << room1, room2, roomList, roomNumber, allocationVars, hotelVars, hookVars >>

NextSameFloor == CallFindBestSameFloorBlock

SpecSameFloor == InitSameFloor /\ [][NextSameFloor]_vars

(***************************************************************************)
(* The caller of core/hotelState.ts that also calls updateRoomStatus       *)
(* itself, with lists that name rooms the Map has and identifiers it does  *)
(* not have.  roomList is the list of its last call of updateRoomStatus.   *)
(***************************************************************************)
\* Lists handed to updateRoomStatus: 1008 is no key of the Map.
UpdateLists == { << 101, 1008 >> }

RoomStatuses == {"available", "booked", "occupied"}

UpdateRoomStatus ==
  /\ pc = "hotel"
  /\ \E roomNumbers \in UpdateLists, newStatus \in RoomStatuses :
       /\ hotelState' = updateRoomStatus(hotelState, roomNumbers, newStatus)
       /\ stateArgument' = updateRoomStatusArgument(hotelState, roomNumbers, newStatus)
       /\ roomList' = roomNumbers
  /\ UNCHANGED << requestedRooms, availableRooms, result, pc,
                  room1, room2, roomNumber, returned, bookings, hookVars >>

NextHotelUpdates ==
  \/ ProcessBooking
  \/ ResetHotel
  \/ RandomlyOccupyRooms
  \/ UpdateRoomStatus

SpecHotelUpdates == InitHotel /\ [][NextHotelUpdates]_vars

(***************************************************************************)
(* hooks/useHotelReservation.ts.  hotelState is the state of the current   *)
(* render, the one the callbacks of that render have closed over; updates  *)
(* is the queue of the values handed to setHotelState and not yet applied. *)
(* message and lastAllocation hold the value last handed to their setters. *)
(* bookings lists the rooms of the requests reported successful since the  *)
(* last reset.                                                             *)
(***************************************************************************)
MaxUpdates == 2

\* Counts a user may ask for: 1, 2 and 6.
HookCounts == {[int |-> n, half |-> 0] : n \in {1, 2, 6}}

\* The draws of Math.random() that leave every room of FreePool free.
HookDraws == {random \in RandomDraws : \A room \in FreePool : random[room] = 9}

\* result.allocatedRooms.join(', ') from index i on.
RECURSIVE joinRooms(_, _)
joinRooms(allocatedRooms, i) ==
  IF i > Len(allocatedRooms) THEN ""
  ELSE IF i = Len(allocatedRooms) THEN ToString(allocatedRooms[i])
  ELSE ToString(allocatedRooms[i]) \o ", " \o joinRooms(allocatedRooms, i + 1)

successMessage(allocation) ==
  [type |-> "success",
   text |-> "Successfully booked " \o ToString(Len(allocation.allocatedRooms))
              \o " room(s): " \o joinRooms(allocation.allocatedRooms, 1)
              \o ". Travel time: " \o ToString(allocation.travelTime)
              \o " minute(s). Selected to minimize total travel time based on entrance proximity."]

\* result.errorMessage || 'Booking failed'
errorMessageOf(allocation) ==
  [type |-> "error",
   text |-> IF allocation.errorMessage \in {"undefined", ""}
              THEN "Booking failed"
              ELSE allocation.errorMessage]

occupyMessage(stats) ==
  [type |-> "info",
   text |-> "Randomly occupied " \o ToString(stats.occupiedCount) \o " rooms. "
              \o ToString(stats.availableCount) \o " rooms available."]

InitHook ==
  /\ AllocationIdle
  /\ UtilitiesIdle
  /\ hotelState = createInitialHotelState
  /\ stateArgument = createInitialHotelState
  /\ bookings = << >>
  /\ updates = << >>
  /\ message = NoMessage
  /\ lastAllocation = NoAllocation
  /\ pc = "hook"

BookRooms ==
  /\ pc = "hook"
  /\ Len(bookings) < MaxBookings
  /\ Len(updates) < MaxUpdates
  /\ \E count \in HookCounts :
       \E booked \in {processBooking(hotelState, count)} :
         IF booked.result.success
           THEN /\ updates' = Append(updates, booked.newState)
                /\ lastAllocation' = Some(booked.result)
                /\ message' = successMessage(booked.result)
                /\ bookings' = Append(bookings, booked.result.allocatedRooms)
           ELSE /\ lastAllocation' = NoAllocation
                /\ message' = errorMessageOf(booked.result)
                /\ UNCHANGED << updates, bookings >>
  /\ UNCHANGED << hotelState, stateArgument, allocationVars, pc, utilityVars >>

HandleReset ==
  /\ pc = "hook"
  /\ Len(updates) < MaxUpdates
  /\ updates' = Append(updates, resetHotel)
  /\ lastAllocation' = NoAllocation
  /\ message' = [type |-> "info", text |-> "Hotel reset. All rooms are now available."]
  /\ bookings' = << >>
  /\ UNCHANGED << hotelState, stateArgument, allocationVars, pc, utilityVars >>

HandleRandomOccupy ==
  /\ pc = "hook"
  /\ Len(updates) < MaxUpdates
  /\ \E random \in HookDraws :
       \E newState \in {randomlyOccupyRooms(hotelState, 3, random)} :
         /\ updates' = Append(updates, newState)
         /\ message' = occupyMessage(getHotelStats(newState))
  /\ lastAllocation' = NoAllocation
  /\ bookings' = << >>
  /\ UNCHANGED << hotelState, stateArgument, allocationVars, pc, utilityVars >>

ClearMessage ==
  /\ pc = "hook"
  /\ message' = NoMessage
  /\ UNCHANGED << hotelState, stateArgument, bookings, updates, lastAllocation,
                  allocationVars, pc, utilityVars >>

\* The next render: React applies the queued values in order, each replacing
\* the state, and the callbacks are made again over the state that results.
Render ==
  /\ pc = "hook"
  /\ updates # << >>
  /\ hotelState' = updates[Len(updates)]
  /\ updates' = << >>
  /\ UNCHANGED << stateArgument, bookings, message, lastAllocation,
                  allocationVars, pc, utilityVars >>

NextHook ==
  \/ BookRooms
  \/ HandleReset
  \/ HandleRandomOccupy
  \/ ClearMessage
  \/ Render

SpecHook == InitHook /\ [][NextHook]_vars

(***************************************************************************)
(* Vocabulary of the properties.  The span of a set of valid rooms is      *)
(* written out here from its definition (travel time between the lowest    *)
(* and the highest identifier), not through the engine's operators.        *)
(***************************************************************************)
Returned == pc = "returned"

ElementsOf(arr) == {arr[i] : i \in 1..Len(arr)}

MinOf(S) == CHOOSE x \in S : \A y \in S : x <= y
MaxOf(S) == CHOOSE x \in S : \A y \in S : y <= x

ValidRoomIds ==
  {floor * 100 + position : floor \in 1..9, position \in 1..10}
    \cup {1000 + position : position \in 1..7}

\* The four validation checks pass.
ValidationPasses ==
  /\ requestedRooms.half = 0
  /\ requestedRooms.int >= 1
  /\ requestedRooms.int <= 5
  /\ Len(availableRooms) >= requestedRooms.int

\* availableRooms lists distinct valid room identifiers.
DistinctValidIds ==
  /\ ElementsOf(availableRooms) \subseteq ValidRoomIds
  /\ Cardinality(ElementsOf(availableRooms)) = Len(availableRooms)

SpanOfSet(S) ==
  IF Cardinality(S) <= 1
    THEN 0
    ELSE 2 * ((MaxOf(S) \div 100) - (MinOf(S) \div 100))
           + Abs((MaxOf(S) % 100) - (MinOf(S) % 100))

SubsetsOfSize(S, k) == {T \in SUBSET S : Cardinality(T) = k}

RoomsOnFloor(floor) == {room \in ElementsOf(availableRooms) : room \div 100 = floor}

\* Some floor has at least requestedRooms available rooms.
SomeFloorHasEnough ==
  \E floor \in 1..10 : Cardinality(RoomsOnFloor(floor)) >= requestedRooms.int

OnOneFloor(rooms) ==
  \A i, j \in 1..Len(rooms) : rooms[i] \div 100 = rooms[j] \div 100

(***************************************************************************)
(* C1: validation runs in a fixed order and the first failing check        *)
(* decides the error: non-integer count, then count < 1, then count > 5,   *)
(* then too few available rooms.                                           *)
(***************************************************************************)
C1_ValidationOrder ==
  Returned =>
    /\ requestedRooms.half # 0 =>
         /\ ~result.success
         /\ result.errorMessage = "Number of rooms must be an integer"
    /\ (requestedRooms.half = 0 /\ requestedRooms.int < 1) =>
         /\ ~result.success
         /\ result.errorMessage = "Minimum 1 room(s) required per booking"
    /\ (requestedRooms.half = 0 /\ requestedRooms.int > 5) =>
         /\ ~result.success
         /\ result.errorMessage = "Maximum 5 rooms allowed per booking"
    /\ (requestedRooms.half = 0 /\ requestedRooms.int \in 1..5
          /\ Len(availableRooms) < requestedRooms.int) =>
         /\ ~result.success
         /\ result.errorMessage =
              "Not enough rooms available. Requested: "
                \o ToString(requestedRooms.int) \o ", Available: "
                \o ToString(Len(availableRooms))

\* Count 6 with no available room: the bound error, not the availability error.
C1_Witness ==
  /\ Returned
  /\ requestedRooms = [int |-> 6, half |-> 0]
  /\ availableRooms = << >>
  /\ result.errorMessage = "Maximum 5 rooms allowed per booking"

(***************************************************************************)
(* C2: every failed call returns success = false, no rooms, travel time 0  *)
(* and a non-empty error message.                                          *)
(***************************************************************************)
C2_FailureShape ==
  (Returned /\ ~result.success) =>
    /\ result.allocatedRooms = << >>
    /\ result.travelTime = 0
    /\ result.errorMessage # "undefined"
    /\ result.errorMessage # ""

\* A failure of the search itself, after validation passed.
C2_Witness ==
  /\ Returned
  /\ ~result.success
  /\ ValidationPasses
  /\ result.errorMessage = "Unable to allocate rooms"

(***************************************************************************)
(* C3: whenever the four validation checks pass, for every list of         *)
(* integers, the call succeeds, so canAllocate is true exactly when the    *)
(* checks pass.                                                            *)
(***************************************************************************)
C3_ValidRequestAlwaysAllocates ==
  Returned =>
    /\ ValidationPasses => result.success
    /\ canAllocate(requestedRooms, availableRooms) <=> ValidationPasses

C5_CrossFloorMinimumSpan ==
  (Returned /\ ValidationPasses /\ DistinctValidIds /\ ~SomeFloorHasEnough) =>
    /\ result.success
    /\ ElementsOf(result.allocatedRooms)
         \in SubsetsOfSize(ElementsOf(availableRooms), requestedRooms.int)
    /\ result.travelTime = SpanOfSet(ElementsOf(result.allocatedRooms))
    /\ \A T \in SubsetsOfSize(ElementsOf(availableRooms), requestedRooms.int) :
         /\ result.travelTime <= SpanOfSet(T)
         /\ SpanOfSet(T) = result.travelTime =>
              MinOf(ElementsOf(result.allocatedRooms)) <= MinOf(T)
    /\ (requestedRooms.int = 3 /\ availableRooms = << 101, 102, 201, 202 >>) =>
         (result.allocatedRooms = << 101, 102, 201 >> /\ result.travelTime = 2)
    /\ (requestedRooms.int = 2 /\ availableRooms = << 101, 510, 1007 >>) =>
         (result.allocatedRooms = << 510, 1007 >> /\ result.travelTime = 13)

\* [101,102,201,202] with count 3 gives [101,102,201] with time 2, although
\* [102,201,202] has span 2 as well.
C5_Witness ==
  /\ Returned
  /\ requestedRooms = [int |-> 3, half |-> 0]
  /\ ElementsOf(availableRooms) = {101, 102, 201, 202}
  /\ Len(availableRooms) = 4
  /\ result.success
  /\ result.allocatedRooms = << 101, 102, 201 >>
  /\ result.travelTime = 2

(***************************************************************************)
(* C6: if some floor has requestedRooms available rooms at consecutive     *)
(* positions (distinct valid ids), the rooms returned are requestedRooms   *)
(* rooms at consecutive positions of one floor and the travel time is      *)
(* requestedRooms - 1; a floor with only scattered rooms never wins.       *)
(***************************************************************************)
SomeFloorHasContiguousRun ==
  \E floor \in 1..10, first \in 1..10 :
    \A position \in first..(first + requestedRooms.int - 1) :
      floor * 100 + position \in ElementsOf(availableRooms)

ConsecutiveOnOneFloor(rooms) ==
  /\ OnOneFloor(rooms)
  /\ \A j \in 2..Len(rooms) : rooms[j] % 100 = (rooms[j - 1] % 100) + 1

C6_ContiguousBlockWins ==
  (Returned /\ ValidationPasses /\ DistinctValidIds /\ SomeFloorHasContiguousRun) =>
    /\ result.success
    /\ Len(result.allocatedRooms) = requestedRooms.int
    /\ ConsecutiveOnOneFloor(result.allocatedRooms)
    /\ result.travelTime = requestedRooms.int - 1

\* A lower floor has enough rooms, but scattered; the block of a higher floor
\* is returned.
C6_Witness ==
  /\ Returned /\ ValidationPasses /\ DistinctValidIds /\ SomeFloorHasContiguousRun
  /\ result.success
  /\ ConsecutiveOnOneFloor(result.allocatedRooms)
  /\ \E floor \in 1..10 :
       /\ floor < result.allocatedRooms[1] \div 100
       /\ Cardinality(RoomsOnFloor(floor)) >= requestedRooms.int

(***************************************************************************)
(* C7: the single-floor tie-break favours lower rooms: among the floors    *)
(* whose best block attains the globally minimum span the lowest floor is  *)
(* chosen, and within it, among the minimum-span windows, the one with the *)
(* smallest lowest identifier.  The windows a floor offers are those of    *)
(* step 2 of the search: the position-consecutive windows if there is one, *)
(* else all windows of the sorted list; for distinct valid ids these are   *)
(* the minimum-span windows among all windows of the floor.                *)
(***************************************************************************)
\* The rooms of a floor in ascending order (on floors 1..10 the order of the
\* identifiers is the order of the positions).
FloorList(floor) ==
  SortSeq(SelectSeq(availableRooms, LAMBDA room : room \div 100 = floor),
          LAMBDA a, b : a < b)

\* The windows of requestedRooms consecutive entries of the floor's list.
FloorWindows(floor) ==
  {SubSeq(FloorList(floor), i, i + requestedRooms.int - 1) :
     i \in 1..(Len(FloorList(floor)) - requestedRooms.int + 1)}

WindowSpan(w) ==
  IF Len(w) <= 1 THEN 0
  ELSE IF ElementsOf(w) \subseteq ValidRoomIds THEN SpanOfSet(ElementsOf(w))
  ELSE Infinity

PositionsConsecutive(w) ==
  \A j \in 2..Len(w) : w[j] % 100 = (w[j - 1] % 100) + 1

CandidateWindows(floor) ==
  LET finite == {w \in FloorWindows(floor) : WindowSpan(w) < Infinity}
      consecutive == {w \in finite : PositionsConsecutive(w)}
  IN IF consecutive # {} THEN consecutive ELSE finite

BlockFloors == {floor \in 1..10 : CandidateWindows(floor) # {}}

FloorBestSpan(floor) == MinOf({WindowSpan(w) : w \in CandidateWindows(floor)})

GlobalBestSpan == MinOf({FloorBestSpan(floor) : floor \in BlockFloors})

LowestBestFloor ==
  MinOf({floor \in BlockFloors : FloorBestSpan(floor) = GlobalBestSpan})

C7_LowerRoomsTieBreak ==
  (Returned /\ ValidationPasses /\ BlockFloors # {}) =>
    /\ result.success
    /\ result.allocatedRooms \in CandidateWindows(LowestBestFloor)
    /\ result.travelTime = GlobalBestSpan
    /\ WindowSpan(result.allocatedRooms) = GlobalBestSpan
    /\ \A w \in CandidateWindows(LowestBestFloor) :
         WindowSpan(w) = GlobalBestSpan => result.allocatedRooms[1] <= w[1]
    /\ DistinctValidIds =>
         \A floor \in 1..10 : \A w \in FloorWindows(floor) :
           /\ result.travelTime <= WindowSpan(w)
           /\ WindowSpan(w) = result.travelTime =>
                /\ result.allocatedRooms[1] \div 100 <= floor
                /\ result.allocatedRooms[1] <= w[1]

\* A higher floor attains the minimum span as well, and so does a window of
\* higher rooms on the chosen floor, for a count of at least two.
C7_Witness ==
  /\ Returned /\ ValidationPasses /\ DistinctValidIds /\ BlockFloors # {}
  /\ requestedRooms.int >= 2
  /\ result.success
  /\ result.allocatedRooms[1] \div 100 = LowestBestFloor
  /\ \E floor \in BlockFloors :
       floor > LowestBestFloor /\ FloorBestSpan(floor) = GlobalBestSpan
  /\ \E w \in CandidateWindows(LowestBestFloor) :
       WindowSpan(w) = GlobalBestSpan /\ w[1] > result.allocatedRooms[1]

(***************************************************************************)
(* C8: on every successful call the number of rooms returned equals the    *)
(* requested count.                                                        *)
(***************************************************************************)
C8_ReturnsRequestedCount ==
  (Returned /\ result.success) =>
    Len(result.allocatedRooms) = requestedRooms.int

C8_Witness ==
  /\ Returned
  /\ result.success
  /\ requestedRooms.int = 5
  /\ Len(result.allocatedRooms) = 5

(***************************************************************************)
(* C9: on every successful call, for every list of integers (repeated      *)
(* identifiers included), the rooms returned are strictly ascending and    *)
(* no room is returned twice.                                              *)
(***************************************************************************)
C9_StrictlyAscending ==
  (Returned /\ result.success) =>
    \A j \in 2..Len(result.allocatedRooms) :
      result.allocatedRooms[j - 1] < result.allocatedRooms[j]

(***************************************************************************)
(* C10: on every successful call, for every list of integers and every     *)
(* count in 1..5, every room returned satisfies isValidRoomNumber.         *)
(***************************************************************************)
C10_ReturnsValidRooms ==
  (Returned /\ result.success) =>
    \A j \in 1..Len(result.allocatedRooms) :
      isValidRoomNumber(result.allocatedRooms[j])

(***************************************************************************)
(* C11: on every successful call the travel time returned equals           *)
(* calculateGroupSpan of the rooms returned, in the single-floor and in    *)
(* the cross-floor branch.                                                 *)
(***************************************************************************)
C11_TravelTimeIsGroupSpan ==
  (Returned /\ result.success) =>
    result.travelTime = calculateGroupSpan(result.allocatedRooms)

\* A cross-floor result with a positive travel time.
C11_Witness ==
  /\ Returned
  /\ result.success
  /\ ~OnOneFloor(result.allocatedRooms)
  /\ result.travelTime > 0
  /\ result.travelTime = calculateGroupSpan(result.allocatedRooms)

(***************************************************************************)
(* C12: allocateRooms never modifies its availableRooms argument: after    *)
(* any call, successful or failed, the caller's array has the same         *)
(* elements in the same order.                                             *)
(***************************************************************************)
C12_ArgumentUnmodified == [][availableRooms' = availableRooms]_vars

\* A cross-floor call with exactly requestedRooms rooms, given out of order:
\* the result is sorted, the argument is not.
C12_Witness ==
  /\ Returned
  /\ result.success
  /\ ~OnOneFloor(result.allocatedRooms)
  /\ Len(availableRooms) = requestedRooms.int
  /\ availableRooms # result.allocatedRooms

(***************************************************************************)
(* C13: the result depends on the count and on the set of available rooms  *)
(* only: for distinct ids a reordering of availableRooms gives the same    *)
(* allocatedRooms and travelTime.  The reorderings tried are the exchanges *)
(* of two elements (of the first and the last in a long list) and the      *)
(* reversal; the lists over RoomPool are closed under them.                *)
(***************************************************************************)
LongList == 10

Exchanges(arr) ==
  UNION {{[arr EXCEPT ![i] = arr[j], ![j] = arr[i]] :
            j \in IF Len(arr) <= LongList THEN 1..Len(arr) ELSE {Len(arr) + 1 - i}} :
          i \in IF Len(arr) <= LongList THEN 1..Len(arr) ELSE 1..1}

Reversed(arr) == [i \in 1..Len(arr) |-> arr[Len(arr) + 1 - i]]

C13_OrderIndependent ==
  (Returned /\ Cardinality(ElementsOf(availableRooms)) = Len(availableRooms)) =>
    \A reordered \in Exchanges(availableRooms) \cup {Reversed(availableRooms)} :
      LET again == allocateRooms(requestedRooms, reordered)
      IN /\ again.success = result.success
         /\ again.allocatedRooms = result.allocatedRooms
         /\ again.travelTime = result.travelTime

\* A successful call on distinct rooms given out of ascending order, on one
\* floor and across floors.
C13_Witness ==
  /\ Returned
  /\ result.success
  /\ requestedRooms.int >= 2
  /\ Cardinality(ElementsOf(availableRooms)) = Len(availableRooms)
  /\ \E i \in 2..Len(availableRooms) : availableRooms[i] < availableRooms[i - 1]
  /\ availableRooms # Reversed(sortRoomNumbers(availableRooms))

(***************************************************************************)
(* C14: calculateTravelTime(room1, room2): an invalid room1 gives          *)
(* isValid = false, all minutes 0 and a message naming room1; otherwise an *)
(* invalid room2 gives the same naming room2; otherwise the result is      *)
(* valid with verticalMinutes = 2 * |floor difference|, horizontalMinutes  *)
(* = |position difference| and totalMinutes their sum (all 0 for equal     *)
(* rooms), and it is the same for the rooms exchanged.                     *)
(***************************************************************************)
C14_TravelTimeContract ==
  (pc = "returned" /\ returned.fn = "calculateTravelTime") =>
    IF room1 \notin ValidRoomIds
      THEN returned.value =
             [totalMinutes |-> 0, verticalMinutes |-> 0, horizontalMinutes |-> 0,
              isValid |-> FALSE,
              errorMessage |-> "Invalid room number: " \o ToString(room1)]
    ELSE IF room2 \notin ValidRoomIds
      THEN returned.value =
             [totalMinutes |-> 0, verticalMinutes |-> 0, horizontalMinutes |-> 0,
              isValid |-> FALSE,
              errorMessage |-> "Invalid room number: " \o ToString(room2)]
    ELSE /\ returned.value.isValid
         /\ returned.value.errorMessage = "undefined"
         /\ returned.value.verticalMinutes = 2 * Abs((room1 \div 100) - (room2 \div 100))
         /\ returned.value.horizontalMinutes = Abs((room1 % 100) - (room2 % 100))
         /\ returned.value.totalMinutes =
              returned.value.verticalMinutes + returned.value.horizontalMinutes
         /\ room1 = room2 => returned.value.totalMinutes = 0
         /\ calculateTravelTime(room2, room1) = returned.value

\* From 1007 down to 102: 18 minutes of stairs and 5 along the corridor.
C14_Witness ==
  /\ pc = "returned"
  /\ returned.fn = "calculateTravelTime"
  /\ room1 = 1007
  /\ room2 = 102
  /\ returned.value.isValid
  /\ returned.value.verticalMinutes = 18
  /\ returned.value.horizontalMinutes = 5
  /\ returned.value.totalMinutes = 23

(***************************************************************************)
(* C15: calculateGroupSpan(rooms) is the infinite sentinel whenever some   *)
(* room of the list is invalid, for lists of every length; for valid rooms *)
(* it is 0 for 0 or 1 rooms and otherwise the travel time between the      *)
(* smallest and the largest room, whatever the order of the list.          *)
(***************************************************************************)
C15_GroupSpanSentinel ==
  (pc = "returned" /\ returned.fn = "calculateGroupSpan") =>
    IF ElementsOf(roomList) \subseteq ValidRoomIds
      THEN returned.value = SpanOfSet(ElementsOf(roomList))
      ELSE returned.value = Infinity

(***************************************************************************)
(* C16: isValidRoomNumber is true exactly for the integers                 *)
(* floor * 100 + position with floor in 1..10 and position in 1..10 (1..7  *)
(* on floor 10); generateAllRoomNumbers is the strictly ascending list of  *)
(* exactly these 97 numbers, from 101 to 1007, as long as                  *)
(* getTotalRoomCount says.                                                 *)
(***************************************************************************)
C16_RoomNumbering ==
  pc = "returned" =>
    /\ returned.fn = "isValidRoomNumber" =>
         (returned.value <=> (roomNumber.half = 0 /\ roomNumber.int \in ValidRoomIds))
    /\ returned.fn = "generateAllRoomNumbers" =>
         /\ Len(returned.value) = 97
         /\ \A i \in 2..Len(returned.value) : returned.value[i - 1] < returned.value[i]
         /\ ElementsOf(returned.value) = ValidRoomIds
         /\ returned.value[1] = 101
         /\ returned.value[Len(returned.value)] = 1007
         /\ Len(returned.value) = getTotalRoomCount
    /\ returned.fn = "getTotalRoomCount" => returned.value = 97

\* 1007 is the last room of the top floor.
C16_Witness ==
  /\ pc = "returned"
  /\ returned.fn = "isValidRoomNumber"
  /\ roomNumber = [int |-> 1007, half |-> 0]
  /\ returned.value

(***************************************************************************)
(* C17: for valid rooms sortRoomNumbers(rooms) is the numeric ascending    *)
(* sort of rooms: as long as rooms, never descending, with every room as   *)
(* often as in rooms; and the argument is the same after the call.         *)
(***************************************************************************)
C17_SortIsNumericSort ==
  [][(pc = "call" /\ returned'.fn = "sortRoomNumbers"
        /\ ElementsOf(roomList) \subseteq ValidRoomIds) =>
       /\ Len(returned'.value) = Len(roomList)
       /\ \A i \in 2..Len(returned'.value) : returned'.value[i - 1] <= returned'.value[i]
       /\ \A room \in ElementsOf(roomList) :
            Cardinality({i \in 1..Len(returned'.value) : returned'.value[i] = room})
              = Cardinality({i \in 1..Len(roomList) : roomList[i] = room})
       /\ roomList' = roomList]_vars

\* Two floors, a repeated room, not in order.
C17_Witness ==
  /\ pc = "returned"
  /\ returned.fn = "sortRoomNumbers"
  /\ roomList = << 201, 105, 101, 105 >>
  /\ returned.value = << 101, 105, 105, 201 >>

(***************************************************************************)
(* C18: no room is allocated to two booking requests of the hook: two      *)
(* requests reported successful since the last reset never have a room in  *)
(* common, also when the second is issued before the state update of the   *)
(* first has been applied; and once every update has been applied, the     *)
(* state marks the rooms of every successful request as booked.            *)
(***************************************************************************)
C18_NoDoubleAllocation ==
  pc = "hook" =>
    /\ \A i, j \in 1..Len(bookings) :
         i < j => ElementsOf(bookings[i]) \cap ElementsOf(bookings[j]) = {}
    /\ updates = << >> =>
         \A i \in 1..Len(bookings) : \A room \in ElementsOf(bookings[i]) :
           \E k \in 1..Len(hotelState.rooms) :
             /\ hotelState.rooms[k].roomNumber = room
             /\ hotelState.rooms[k].status = "booked"

(***************************************************************************)
(* C19: when each processBooking is applied to the state the previous call *)
(* returned, every room a booking allocates had status 'available' in the  *)
(* state the booking was applied to, and it is in none of the earlier      *)
(* successful bookings since the last reset.                               *)
(***************************************************************************)
C19_OnlyAvailableRoomsBooked ==
  [][(pc = "hotel" /\ Len(bookings') = Len(bookings) + 1) =>
       /\ bookings'[Len(bookings')] = result'.allocatedRooms
       /\ \A room \in ElementsOf(result'.allocatedRooms) :
            /\ \E k \in 1..Len(hotelState.rooms) :
                 /\ hotelState.rooms[k].roomNumber = room
                 /\ hotelState.rooms[k].status = "available"
            /\ \A i \in 1..Len(bookings) : room \notin ElementsOf(bookings[i])]_vars

\* 94 rooms occupied; the first booking took 101 and 102, the second 201.
C19_Witness ==
  /\ pc = "hotel"
  /\ bookings = << << 101, 102 >>, << 201 >> >>
  /\ getHotelStats(hotelState).occupiedCount = 94
  /\ getHotelStats(hotelState).bookedCount = 3

(***************************************************************************)
(* C20: a successful processBooking(state, n) returns a state in which     *)
(* exactly the allocated rooms went from 'available' to 'booked', every    *)
(* other room record is as before, lastBooking is the allocated rooms and  *)
(* lastTravelTime the travel time of the result; the state passed in is    *)
(* the same after the call.                                                *)
(***************************************************************************)
C20_BookingFrame ==
  [][(pc = "hotel" /\ Len(bookings') = Len(bookings) + 1) =>
       /\ result'.success
       /\ Len(hotelState'.rooms) = Len(hotelState.rooms)
       /\ \A room \in ElementsOf(result'.allocatedRooms) :
            \E k \in 1..Len(hotelState.rooms) : hotelState.rooms[k].roomNumber = room
       /\ \A k \in 1..Len(hotelState.rooms) :
            IF hotelState.rooms[k].roomNumber \in ElementsOf(result'.allocatedRooms)
              THEN /\ hotelState.rooms[k].status = "available"
                   /\ hotelState'.rooms[k] = [hotelState.rooms[k] EXCEPT !.status = "booked"]
              ELSE hotelState'.rooms[k] = hotelState.rooms[k]
       /\ hotelState'.lastBooking = Some(result'.allocatedRooms)
       /\ hotelState'.lastTravelTime = Some(result'.travelTime)
       /\ stateArgument' = hotelState]_vars

\* A booking across two floors in a hotel with three free rooms.
C20_Witness ==
  /\ pc = "hotel"
  /\ result.success
  /\ result.allocatedRooms = << 101, 102, 201 >>
  /\ bookings = << << 101, 102, 201 >> >>
  /\ hotelState.lastBooking = Some(<< 101, 102, 201 >>)
  /\ hotelState.lastTravelTime = Some(result.travelTime)
  /\ getHotelStats(hotelState).bookedCount = 3
  /\ getHotelStats(stateArgument).bookedCount = 0

(***************************************************************************)
(* C21: a processBooking that fails returns the state it was given: every  *)
(* room keeps its status, lastBooking and lastTravelTime keep their        *)
(* values, and the caller's state object is left as it was.                *)
(***************************************************************************)
C21_FailedBookingKeepsState ==
  [][(result' # NoResult /\ ~result'.success) =>
       /\ hotelState' = hotelState
       /\ stateArgument' = hotelState
       /\ bookings' = bookings]_vars

\* A booking of room 101, then a request for six rooms: it fails and the
\* state still has room 101 booked and its last booking.
C21_Witness ==
  /\ pc = "hotel"
  /\ ~result.success
  /\ result.errorMessage = "Maximum 5 rooms allowed per booking"
  /\ bookings = << << 101 >> >>
  /\ hotelState.lastBooking = Some(<< 101 >>)
  /\ hotelState.lastTravelTime = Some(0)
  /\ hotelState.rooms[1].status = "booked"
  /\ getHotelStats(hotelState).bookedCount = 1

(***************************************************************************)
(* C22: after any sequence of processBooking, updateRoomStatus, resetHotel *)
(* and randomlyOccupyRooms from createInitialHotelState the Map holds      *)
(* exactly the 97 valid identifiers, each record has the floor and the     *)
(* position of its identifier and one of the three statuses, and the three *)
(* counts of getHotelStats add up to totalRooms = 97; updateRoomStatus     *)
(* with an identifier that is no key of the Map adds no record.            *)
(***************************************************************************)
C22_RoomMapShape ==
  /\ Len(hotelState.rooms) = 97
  /\ [i \in 1..Len(hotelState.rooms) |-> hotelState.rooms[i].roomNumber]
       = generateAllRoomNumbers
  /\ \A i \in 1..Len(hotelState.rooms) :
       /\ isValidRoomNumber(hotelState.rooms[i].roomNumber)
       /\ hotelState.rooms[i].floor = extractFloor(hotelState.rooms[i].roomNumber)
       /\ hotelState.rooms[i].position = extractPosition(hotelState.rooms[i].roomNumber)
       /\ hotelState.rooms[i].status \in RoomStatuses
       /\ \A j \in 1..Len(hotelState.rooms) :
            hotelState.rooms[j].roomNumber = hotelState.rooms[i].roomNumber => j = i
  /\ getHotelStats(hotelState).totalRooms = 97
  /\ getHotelStats(hotelState).availableCount + getHotelStats(hotelState).bookedCount
       + getHotelStats(hotelState).occupiedCount = getHotelStats(hotelState).totalRooms

\* Room 102 was booked (101 being occupied), then updateRoomStatus was called
\* with [101, 1008] and 'available': 101 is available again, 102 is still
\* booked, and there is no record for 1008.
C22_Witness ==
  /\ pc = "hotel"
  /\ roomList = << 101, 1008 >>
  /\ bookings = << << 102 >> >>
  /\ stateArgument.rooms[1].status = "occupied"
  /\ hotelState.rooms[1].status = "available"
  /\ hotelState.rooms[2].status = "booked"
  /\ \A i \in 1..Len(hotelState.rooms) : hotelState.rooms[i].roomNumber # 1008
  /\ getHotelStats(hotelState).totalRooms = 97

(***************************************************************************)
(* C23: randomlyOccupyRooms(state, rate) starts from a fresh hotel and     *)
(* ignores the statuses of the state it is given: a room of its result is  *)
(* 'occupied' if the draw of Math.random() for it is below the rate and    *)
(* 'available' otherwise, no room is 'booked', lastBooking and             *)
(* lastTravelTime are null, and with rate 0 no room is occupied.           *)
(***************************************************************************)
FreshOccupancy(occupied, occupancyRate, random) ==
  /\ \A i \in 1..Len(occupied.rooms) :
       occupied.rooms[i].status =
         IF random[occupied.rooms[i].roomNumber] < occupancyRate
           THEN "occupied" ELSE "available"
  /\ getHotelStats(occupied).bookedCount = 0
  /\ getHotelStats(occupied).totalRooms = 97
  /\ occupied.lastBooking = Null
  /\ occupied.lastTravelTime = Null
  /\ occupancyRate = 0 => getHotelStats(occupied).occupiedCount = 0

C23_RandomOccupancyStartsFresh ==
  /\ \A occupancyRate \in OccupancyRates, random \in RandomDraws :
       FreshOccupancy(randomlyOccupyRooms(hotelState, occupancyRate, random),
                      occupancyRate, random)
  /\ (pc = "hotel" /\ result = NoResult /\ bookings = << >>) =>
       /\ getHotelStats(hotelState).bookedCount = 0
       /\ hotelState.lastBooking = Null
       /\ hotelState.lastTravelTime = Null

\* Rooms 101 and 102 were booked; randomlyOccupyRooms then gave a hotel in
\* which 94 rooms are occupied, 101 and 102 among the three available ones.
C23_Witness ==
  /\ pc = "hotel"
  /\ stateArgument.lastBooking = Some(<< 101, 102 >>)
  /\ stateArgument.rooms[1].status = "booked"
  /\ getHotelStats(stateArgument).bookedCount = 2
  /\ result = NoResult
  /\ getHotelStats(hotelState).occupiedCount = 94
  /\ getHotelStats(hotelState).bookedCount = 0
  /\ hotelState.rooms[1].status = "available"
  /\ hotelState.rooms[2].status = "available"
  /\ hotelState.lastBooking = Null

(***************************************************************************)
(* C24, as the code has it: for every set of available rooms of one floor  *)
(* and every count, findBestSameFloorBlock returns what the search over    *)
(* all subsets of that size returns (the search of                         *)
(* findBestCrossFloorAllocation, with its tie-break on the lowest          *)
(* identifier): a subset of minimum span, with the lowest first room among *)
(* the subsets of minimum span, and null when the floor has too few rooms. *)
(* The windows of the position-sorted list lose nothing.                   *)
(***************************************************************************)
MinimumSpanSubsets(rooms, count) ==
  {S \in SubsetsOfSize(rooms, count) :
     \A T \in SubsetsOfSize(rooms, count) : SpanOfSet(S) <= SpanOfSet(T)}

C24_WindowsMatchSubsetSearch ==
  (Returned /\ returned.fn = "findBestSameFloorBlock") =>
    /\ returned.value = findBestCrossFloorAllocation(roomList, requestedRooms.int)
    /\ returned.value.some <=> Len(roomList) >= requestedRooms.int
    /\ returned.value.some =>
         /\ ElementsOf(returned.value.val)
              \in MinimumSpanSubsets(ElementsOf(roomList), requestedRooms.int)
         /\ \A S \in MinimumSpanSubsets(ElementsOf(roomList), requestedRooms.int) :
              returned.value.val[1] <= MinOf(S)

\* Rooms 101, 102, 104, 105, 108 and count 3: no three rooms are adjacent,
\* the windows [101,102,104] and [102,104,105] both have span 3, and the
\* first one is returned, as by the search over all ten subsets.
C24_Witness ==
  /\ Returned
  /\ returned.fn = "findBestSameFloorBlock"
  /\ roomList = << 108, 105, 104, 102, 101 >>
  /\ requestedRooms.int = 3
  /\ ~findBestContiguousBlock(roomList, 3).some
  /\ returned.value = Some(<< 101, 102, 104 >>)
  /\ SpanOfSet({102, 104, 105}) = 3
  /\ Cardinality(MinimumSpanSubsets(ElementsOf(roomList), 3)) > 1

\* C24 as stated: some set of available rooms of one floor and some count
\* make the windows return something else than the search over all subsets.
C24_SubsetSearchDiffers ==
  \E floorRooms \in FloorLists :
    \E count \in MIN_ROOMS_PER_BOOKING..MAX_ROOMS_PER_BOOKING :
      findBestSameFloorBlock(floorRooms, count)
        # findBestCrossFloorAllocation(floorRooms, count)

(***************************************************************************)
(* C25, as the code has it: the span of a set of valid rooms is the travel *)
(* time between its lowest and its highest identifier.  On one floor that  *)
(* is the worst-case walk: no two rooms of the set are farther apart than  *)
(* the span.  Across floors the span bounds the vertical part of the walk  *)
(* between any two rooms of the set, not the walk itself.                  *)
(***************************************************************************)
ListOfValidRooms ==
  /\ Returned
  /\ returned.fn = "calculateGroupSpan"
  /\ ElementsOf(roomList) \subseteq ValidRoomIds

C25_SpanBoundsSameFloorWalks ==
  ListOfValidRooms =>
    /\ Len(roomList) >= 1 => returned.value = SpanOfSet(ElementsOf(roomList))
    /\ OnOneFloor(roomList) =>
         \A a \in ElementsOf(roomList), b \in ElementsOf(roomList) :
           calculateTravelTime(a, b).totalMinutes <= returned.value
    /\ \A a \in ElementsOf(roomList), b \in ElementsOf(roomList) :
         calculateTravelTime(a, b).verticalMinutes <= returned.value

\* [105, 101, 103]: span 4, the walk between 101 and 105.
C25_Witness ==
  /\ ListOfValidRooms
  /\ roomList = << 105, 101, 103 >>
  /\ OnOneFloor(roomList)
  /\ returned.value = 4
  /\ calculateTravelTime(101, 105).totalMinutes = 4
  /\ calculateTravelTime(103, 105).totalMinutes = 2

\* C25 as stated: for single-floor and cross-floor sets alike, no two rooms
\* of a set of valid rooms are farther apart than the span of the set.
C25_SpanIsWorstCaseWalk ==
  ListOfValidRooms =>
    \A a \in ElementsOf(roomList), b \in ElementsOf(roomList) :
      calculateTravelTime(a, b).totalMinutes <= returned.value

(***************************************************************************)
(* C26: a request for one room, with a non-empty list of distinct valid    *)
(* available rooms, succeeds with travel time 0 and returns exactly the    *)
(* numerically smallest available room.                                    *)
(***************************************************************************)
C26_SingleRoomIsLowest ==
  (Returned /\ requestedRooms = [int |-> 1, half |-> 0]
     /\ DistinctValidIds /\ Len(availableRooms) >= 1) =>
    /\ result.success
    /\ result.travelTime = 0
    /\ result.errorMessage = "undefined"
    /\ result.allocatedRooms = << MinOf(ElementsOf(availableRooms)) >>

\* [202, 201, 105] and count 1: room 105, the lowest room of the lowest floor.
C26_Witness ==
  /\ Returned
  /\ requestedRooms = [int |-> 1, half |-> 0]
  /\ availableRooms = << 202, 201, 105 >>
  /\ DistinctValidIds
  /\ result.success
  /\ result.allocatedRooms = << 105 >>
  /\ result.travelTime = 0

(***************************************************************************)
(* C27: on every successful call, whatever integers the list of available  *)
(* rooms holds, travelTime is a non-negative integer, never the sentinel,  *)
(* and at most 27 (9 horizontal and 18 vertical minutes); when the rooms   *)
(* returned lie on one floor it is at most 9.                              *)
(***************************************************************************)
C27_TravelTimeBounds ==
  (Returned /\ result.success) =>
    /\ result.travelTime \in Nat
    /\ result.travelTime # Infinity
    /\ result.travelTime <= 9 * HORIZONTAL_PER_ROOM + 9 * VERTICAL_PER_FLOOR
    /\ result.travelTime <= 27
    /\ OnOneFloor(result.allocatedRooms) => result.travelTime <= 9

\* [110, 1001] and count 2: the two rooms are 27 minutes apart.
C27_Witness ==
  /\ Returned
  /\ availableRooms = << 110, 1001 >>
  /\ requestedRooms.int = 2
  /\ result.success
  /\ result.allocatedRooms = << 110, 1001 >>
  /\ result.travelTime = 27
  /\ ~OnOneFloor(result.allocatedRooms)

(***************************************************************************)
(* C28: every room of a successful allocation is one of the available      *)
(* rooms and is returned no more often than the list of available rooms    *)
(* holds it: allocateRooms never returns a room that was not offered.       *)
(***************************************************************************)
Occurrences(arr, x) == Cardinality({i \in 1..Len(arr) : arr[i] = x})

C28_OnlyOfferedRooms ==
  (Returned /\ result.success) =>
    \A room \in ElementsOf(result.allocatedRooms) :
      /\ room \in ElementsOf(availableRooms)
      /\ Occurrences(result.allocatedRooms, room) <= Occurrences(availableRooms, room)

\* [101, 201, 101] and count 3: no floor has three rooms, the only
\* combination is returned, with 101 twice as it was offered twice.
C28_Witness ==
  /\ Returned
  /\ availableRooms = << 101, 201, 101 >>
  /\ requestedRooms.int = 3
  /\ result.success
  /\ result.allocatedRooms = << 101, 101, 201 >>
  /\ Occurrences(result.allocatedRooms, 101) = 2
  /\ Occurrences(availableRooms, 101) = 2

(***************************************************************************)
(* C29: in every hotel state reached by processBooking, resetHotel and     *)
(* randomlyOccupyRooms, processBooking(state, n) with an integer n in 1..5 *)
(* succeeds exactly when at least n rooms are 'available'.  A success      *)
(* books n rooms, so that n fewer are available; a failure carries the     *)
(* error 'Not enough rooms available' with both numbers and leaves the     *)
(* state alone, so that the same request fails again until a reset.        *)
(***************************************************************************)
BookingOutcome(booked, state, n) ==
  /\ booked.result.success <=> getHotelStats(state).availableCount >= n
  /\ booked.result.success =>
       /\ Len(booked.result.allocatedRooms) = n
       /\ getHotelStats(booked.newState).availableCount
            = getHotelStats(state).availableCount - n
       /\ getHotelStats(booked.newState).bookedCount
            = getHotelStats(state).bookedCount + n
  /\ ~booked.result.success =>
       /\ booked.result.errorMessage =
            "Not enough rooms available. Requested: " \o ToString(n)
              \o ", Available: " \o ToString(getHotelStats(state).availableCount)
       /\ booked.newState = state

C29_BookingSucceedsWhileRoomsRemain ==
  pc = "hotel" =>
    \A n \in MIN_ROOMS_PER_BOOKING..MAX_ROOMS_PER_BOOKING :
      BookingOutcome(processBooking(hotelState, [int |-> n, half |-> 0]), hotelState, n)

\* Of three available rooms two were booked; the next request for two rooms
\* failed, one room being left.
C29_Witness ==
  /\ pc = "hotel"
  /\ bookings = << << 101, 102 >> >>
  /\ getHotelStats(hotelState).availableCount = 1
  /\ getHotelStats(hotelState).occupiedCount = 94
  /\ ~result.success
  /\ result.errorMessage = "Not enough rooms available. Requested: 2, Available: 1"
  /\ stateArgument = hotelState

(***************************************************************************)
(* C30: in every hotel state reached by processBooking, resetHotel and     *)
(* randomlyOccupyRooms, lastBooking is null exactly when lastTravelTime is *)
(* null, and when they are not null every room of lastBooking has status   *)
(* 'booked' and lastTravelTime is calculateGroupSpan(lastBooking).         *)
(***************************************************************************)
StatusOf(state, room) ==
  {state.rooms[i].status : i \in {j \in 1..Len(state.rooms) : state.rooms[j].roomNumber = room}}

C30_LastBookingConsistent ==
  pc = "hotel" =>
    /\ hotelState.lastBooking.some <=> hotelState.lastTravelTime.some
    /\ ~hotelState.lastBooking.some =>
         hotelState.lastBooking = Null /\ hotelState.lastTravelTime = Null
    /\ hotelState.lastBooking.some =>
         /\ Len(hotelState.lastBooking.val) >= 1
         /\ \A room \in ElementsOf(hotelState.lastBooking.val) :
              StatusOf(hotelState, room) = {"booked"}
         /\ hotelState.lastTravelTime.val = calculateGroupSpan(hotelState.lastBooking.val)
         /\ hotelState.lastTravelTime.val = SpanOfSet(ElementsOf(hotelState.lastBooking.val))

\* After the bookings [101, 102] and [103, 104, 105] the last booking is the
\* second one, with its span 2, and all five rooms are booked.
C30_Witness ==
  /\ pc = "hotel"
  /\ bookings = << << 101, 102 >>, << 103, 104, 105 >> >>
  /\ hotelState.lastBooking = Some(<< 103, 104, 105 >>)
  /\ hotelState.lastTravelTime = Some(2)
  /\ getHotelStats(hotelState).bookedCount = 5
  /\ StatusOf(hotelState, 101) = {"booked"}

====
